---- MODULE Spec2Model ----
(***************************************************************************)
(* Model of the Phi-lang validation kernel V* in its four source variants: *)
(*   "kernel"  phi_kernel_poc.py      flat PhiContext, Rule.check          *)
(*   "full"    phi_full_system.py     flat PhiContext, parser              *)
(*   "modular" phi_modular_system.py  PhiSystem of isolated modules        *)
(*   "import"  phi_import_system.py   PhiSystem of modules with imports    *)
(* A Rule object is the record at position i of the rule list of the       *)
(* module (or context) that owns it; a reference to it is <<owner, i>>.    *)
(***************************************************************************)
EXTENDS Integers, Sequences, FiniteSets, TLC

\* ------------------------------------------------------------------ bounds
MaxRules   == 2      \* rules held by the registry (context) at one time
MaxImports == 1      \* import entries held by the registry at one time
MaxGraphImports == 3 \* import entries of the import graphs of SpecGraph
MaxRaceImports == 2  \* import entries of the import graphs of SpecInterleaved

\* --------------------------------------------------------------- universes
Variants == {"kernel", "full", "modular", "import"}

HasRegistry(v) == v \in {"modular", "import"}

CtxName == "ctx"

ModNames(v) ==
  CASE v = "import"  -> {"CoreMath", "Finance"}
    [] v = "modular" -> {"Arithmetic", "LinearAlgebra"}
    [] OTHER         -> {CtxName}

\* the modules of the import graphs of SpecGraph
GraphNames == {"CoreMath", "Finance", "Audit"}

\* the modules of the import graphs of SpecOrder
OrderNames == GraphNames \cup {"Tax"}

AllNames == OrderNames \cup UNION {ModNames(v) : v \in Variants}

NoModule == "None"

HARD == "hard"
SOFT == "soft"
RuleType == {HARD, SOFT}

\* ---------------------------------------------------------------- operands
Number(v) == [t |-> "Number", v |-> v]
Matrix(v) == [t |-> "Matrix", v |-> v]

\* the operand objects of the test scenarios, by the name of their variable
Operand(v, n) ==
  CASE n = "n1" -> Number(2)
    [] n = "n2" -> Number(3)
    [] n = "m1" /\ v = "kernel" -> Matrix(<<<<1, 2>>, <<3, 4>>>>)
    [] n = "m2" /\ v = "kernel" -> Matrix(<<<<0, 1>>, <<1, 0>>>>)
    [] n = "m1" -> Matrix(<<<<1, 0>>, <<0, 0>>>>)
    [] n = "m2" -> Matrix(<<<<0, 1>>, <<0, 0>>>>)

\* argument lists handed to validate
ArgsOf(v) ==
  CASE v = "import" -> {<<100, 0>>, <<100, 10>>}
    [] v = "full"   -> {<<"m1", "m2">>, <<"m1", "m1">>, <<"m1">>}
    [] OTHER        -> {<<"n1", "n2">>, <<"m1", "m2">>, <<"n1", "m1">>,
                        <<"m1", "n1">>}

\* transformations handed to validate: the ones of the test scenarios and,
\* for the import variant, one that returns on every argument list
FuncsOf(v) ==
  IF v = "import" THEN {"safe_divide", "total"} ELSE {"multiply"}

\* the calls made: every transformation on every argument list, but for
\* the import variant one call per behaviour of the transformation
CallsOf(v) ==
  (FuncsOf(v) \X ArgsOf(v)) \ {<<"total", <<100, 10>>>>}

\* Python list repetition n * s
RECURSIVE Repeat(_, _)
Repeat(s, n) == IF n <= 0 THEN <<>> ELSE s \o Repeat(s, n - 1)

\* Matrix.__mul__ on two 2x2 matrices
MatMul(a, b) ==
  [i \in 1..2 |-> [j \in 1..2 |-> a[i][1] * b[1][j] + a[i][2] * b[2][j]]]

\* a * b raises: Matrix.__mul__ subscripts other.v, an int for a Number
MulRaises(v, x, y) ==
  Operand(v, x).t = "Matrix" /\ Operand(v, y).t = "Number"

\* a * b where it does not raise
Mul(v, x, y) ==
  LET a == Operand(v, x)
      b == Operand(v, y)
  IN
  CASE a.t = "Number" /\ b.t = "Number" -> Number(a.v * b.v)
    [] a.t = "Number" /\ b.t = "Matrix" -> Number(Repeat(b.v, a.v))
    [] OTHER                            -> Matrix(MatMul(a.v, b.v))

\* func(*args): "ok" when it returns, "raise" when it raises
RunFunc(v, f, args) ==
  CASE f = "safe_divide" ->
         IF Len(args) # 2 THEN "raise"
         ELSE IF args[2] = 0 THEN "raise" ELSE "ok"
    [] f = "multiply" ->
         IF Len(args) # 2 THEN "raise"
         ELSE IF MulRaises(v, args[1], args[2]) THEN "raise" ELSE "ok"
    [] OTHER -> "ok"

\* rule.logic(*args): "true", "false", or "raise"
EvalLogic(v, logic, args) ==
  CASE logic = "nonzero" ->
         IF Len(args) # 2 THEN "raise"
         ELSE IF args[2] # 0 THEN "true" ELSE "false"
    [] logic = "positive" ->
         IF Len(args) # 1 THEN "raise"
         ELSE IF args[1] > 0 THEN "true" ELSE "false"
    [] logic = "commutativity" ->
         IF Len(args) # 2 THEN "raise"
         ELSE IF MulRaises(v, args[1], args[2])
                 \/ MulRaises(v, args[2], args[1])
              THEN "raise"
         ELSE IF Mul(v, args[1], args[2]).v = Mul(v, args[2], args[1]).v
              THEN "true" ELSE "false"
    [] logic = "identity" ->
         IF Len(args) # 1 THEN "raise" ELSE "true"
    [] logic = "identity_consistency" ->
         IF Len(args) # 2 THEN "raise" ELSE "true"
    [] OTHER -> "true"

\* rule names a declaration may use
RuleNames(v) ==
  CASE v = "import" -> {"nonzero", "positive"}
    [] v = "kernel" -> {"identity_consistency", "commutativity"}
    [] OTHER        -> {"commutativity", "identity", "other"}

\* PhiParser._resolve_logic; the kernel registers its lambdas directly
ResolveLogic(v, name) ==
  CASE v = "import" /\ name \in {"nonzero", "positive"}                -> name
    [] v \in {"full", "modular"} /\ name \in {"commutativity", "identity"} -> name
    [] v = "kernel"                                                    -> name
    [] OTHER                                                           -> "true"

\* ------------------------------------------------------------------- state
VARIABLES
  variant,         \* which source file is running
  modules,         \* PhiSystem.modules: the names that are keys
  current_module,  \* PhiSystem.current_module
  rules,           \* Module.rules / PhiContext.rules, per owner
  imports,         \* Module.imports, per module
  declared,        \* the import lines the parser has read, per module
  pc,              \* position of the validate call
  call,            \* its parameters
  all_rules,       \* the rule list of the current attempt
  idx,             \* position of the verification loop in all_rules
  result,          \* what the last call returned
  reason,          \* the return statement that produced it
  conflict,        \* the rule of the last reported CONFLICT
  start,           \* rules as they were when the call was made
  depth,           \* invocations of validate within the call
  execs,           \* invocations of func within the call
  checked,         \* rules whose predicate this attempt has evaluated
  prev,            \* what the same call returned just before, if it was made
  procs            \* the validate calls of two concurrent callers

vars == <<variant, modules, current_module, rules, imports, declared, pc, call,
          all_rules, idx, result, reason, conflict, start, depth, execs,
          checked, prev, procs>>

registry == <<modules, current_module, rules, imports>>

NoCall == [module |-> NoModule, func |-> "none", args |-> <<>>]
NoRule == <<NoModule, 0>>
NoRules == [m \in AllNames |-> <<>>]

\* the concurrent callers and the locals of a validate call of one of them
Procs == {1, 2}
NoProc == [pc |-> "idle", call |-> NoCall, all_rules |-> <<>>, idx |-> 0,
           result |-> "none", depth |-> 0]
NoProcs == [p \in Procs |-> NoProc]

\* the Rule object behind a reference
RuleAt(rs, ref) == rs[ref[1]][ref[2]]

\* references to the rules of one owner, in declaration order
RuleRefs(m) == [i \in 1..Len(rules[m]) |-> <<m, i>>]

RECURSIVE SumLen(_, _)
SumLen(f, S) ==
  IF S = {} THEN 0
  ELSE LET m == CHOOSE x \in S : TRUE IN Len(f[m]) + SumLen(f, S \ {m})

TotalRules   == SumLen(rules, AllNames)
TotalImports == SumLen(declared, AllNames)

\* ------------------------------------------------------------------- Init
Init ==
  /\ variant \in Variants
  /\ modules = IF HasRegistry(variant) THEN {} ELSE {CtxName}
  /\ current_module = IF HasRegistry(variant) THEN NoModule ELSE CtxName
  /\ rules = NoRules
  /\ imports = [m \in AllNames |-> <<>>]
  /\ declared = imports
  /\ pc = "idle"
  /\ call = NoCall
  /\ all_rules = <<>>
  /\ idx = 0
  /\ result = "none"
  /\ reason = "none"
  /\ conflict = NoRule
  /\ start = NoRules
  /\ depth = 0
  /\ execs = 0
  /\ checked = <<>>
  /\ prev = "none"
  /\ procs = NoProcs

\* the caller is between two validate calls
Between == pc \in {"idle", "done"}

\* what a call left behind is forgotten once the registry is extended
Forget ==
  /\ pc' = "idle"
  /\ call' = NoCall
  /\ all_rules' = <<>>
  /\ idx' = 0
  /\ result' = "none"
  /\ reason' = "none"
  /\ conflict' = NoRule
  /\ start' = NoRules
  /\ depth' = 0
  /\ execs' = 0
  /\ checked' = <<>>
  /\ prev' = "none"
  /\ UNCHANGED procs

\* ------------------------------------------------- building the registry
\* PhiSystem.create_module
CreateModuleEffect(v, name) ==
  IF v = "import" /\ name \in modules
  THEN /\ current_module' = name
       /\ UNCHANGED <<modules, rules, imports>>
  ELSE /\ modules' = modules \cup {name}
       /\ rules' = [rules EXCEPT ![name] = <<>>]
       /\ imports' = [imports EXCEPT ![name] = <<>>]
       /\ current_module' = name

CreateModule(name) ==
  /\ Between
  /\ HasRegistry(variant)
  /\ name \in ModNames(variant)
  /\ CreateModuleEffect(variant, name)
  /\ Forget
  /\ UNCHANGED <<variant, declared>>

\* a parser that records an import under the name it reads
ImportResolvedAlways(name) == TRUE

\* "imp_mod = self.system.get_module(imp_name)" and "if imp_mod"
ImportResolved(name) == name \in modules

\* PhiParser.parse, import branch, and Module.add_import; the else branch
\* reports "Import error" and adds nothing
AddImport(name) ==
  /\ Between
  /\ variant = "import"
  /\ current_module # NoModule
  /\ name \in ModNames(variant)
  /\ TotalImports < MaxImports
  /\ declared' = [declared EXCEPT ![current_module] = Append(@, name)]
  /\ IF ImportResolved(name)
     THEN imports' = [imports EXCEPT ![current_module] = Append(@, name)]
     ELSE imports' = imports
  /\ Forget
  /\ UNCHANGED <<variant, modules, current_module, rules>>

\* Rule.__init__
NewRule(v, name, kind, owner) ==
  [name |-> name, kind |-> kind, logic |-> ResolveLogic(v, name),
   source_module |-> owner, active |-> TRUE]

\* PhiParser._parse_instruction, axiom branch, and Module.add_rule;
\* PhiContext.register_rule in the flat variants
AddRule(name, kind) ==
  /\ Between
  /\ current_module # NoModule
  /\ name \in RuleNames(variant)
  /\ TotalRules < MaxRules
  /\ rules' = [rules EXCEPT ![current_module] =
                 Append(@, NewRule(variant, name, kind, current_module))]
  /\ Forget
  /\ UNCHANGED <<variant, modules, current_module, imports, declared>>

\* ------------------------------------------------------- rule collection
\* the rules of the owners other than module, owner after owner
RECURSIVE RulesOf(_)
RulesOf(S) ==
  IF S = {} THEN <<>>
  ELSE LET m == CHOOSE x \in S : TRUE IN RuleRefs(m) \o RulesOf(S \ {m})

RulesOfOthers(module) == RulesOf(AllNames \ {module})

\* Validator._collect_rules: acc is the pair of its two accumulating
\* parameters, collected_rules and visited
RECURSIVE collect_rules(_, _), collect_imports(_, _, _)
\* a collector that looks at visited only after it has taken the rules
collect_rules_late(module, acc) ==
  IF module \in acc.visited
  THEN [acc EXCEPT !.collected = @ \o RuleRefs(module)]
  ELSE collect_imports(imports[module], 1,
         [collected |-> acc.collected \o RuleRefs(module),
          visited   |-> acc.visited \cup {module}])

\* a collector that takes the rules of a module after those of its imports
collect_rules_post(module, acc) ==
  IF module \in acc.visited THEN acc
  ELSE LET a == collect_imports(imports[module], 1,
                  [acc EXCEPT !.visited = @ \cup {module}])
       IN [a EXCEPT !.collected = @ \o RuleRefs(module)]

collect_rules(module, acc) ==
  IF module \in acc.visited THEN acc
  ELSE collect_imports(imports[module], 1,
         [collected |-> acc.collected \o RuleRefs(module),
          visited   |-> acc.visited \cup {module}])

\* the loop over module.imports in _collect_rules
collect_imports(imps, i, acc) ==
  IF i > Len(imps) THEN acc
  ELSE collect_imports(imps, i + 1, collect_rules(imps[i], acc))

\* a validator that iterates over the rules of every module of the system
AllRulesGlobal(v, module) ==
  IF v = "import"
  THEN collect_rules(module, [collected |-> <<>>, visited |-> {}]).collected
  ELSE RuleRefs(module) \o RulesOfOthers(module)

\* a validator that leaves the imports out
AllRulesLocal(v, module) == RuleRefs(module)

\* the rule list one attempt iterates over
AllRules(v, module) ==
  IF v = "import"
  THEN collect_rules(module, [collected |-> <<>>, visited |-> {}]).collected
  ELSE RuleRefs(module)

\* ---------------------------------------------------------------- validate
\* the caller invokes validate / validate_transformation
Validate(m, f, a) ==
  /\ Between
  /\ m \in ModNames(variant)
  /\ <<f, a>> \in CallsOf(variant)
  /\ call' = [module |-> m, func |-> f, args |-> a]
  /\ pc' = "enter"
  /\ start' = rules
  /\ depth' = 0
  /\ execs' = 0
  /\ result' = "none"
  /\ reason' = "none"
  /\ conflict' = NoRule
  /\ all_rules' = <<>>
  /\ idx' = 0
  /\ checked' = <<>>
  /\ prev' = "none"
  /\ UNCHANGED procs
  /\ UNCHANGED <<variant, declared>>
  /\ UNCHANGED registry

\* the caller makes the call that has just returned once more
ValidateAgain ==
  /\ pc = "done"
  /\ prev' = result
  /\ UNCHANGED procs
  /\ pc' = "enter"
  /\ start' = rules
  /\ depth' = 0
  /\ execs' = 0
  /\ result' = "none"
  /\ reason' = "none"
  /\ conflict' = NoRule
  /\ all_rules' = <<>>
  /\ idx' = 0
  /\ checked' = <<>>
  /\ UNCHANGED <<variant, declared, call>>
  /\ UNCHANGED registry

\* a return statement of validate: the whole call returns its value
Return(value, why) ==
  /\ result' = value
  /\ reason' = why
  /\ pc' = "done"

\* a validate that never looks the module up
ModuleFoundAlways(v, m) == TRUE

\* a validate that works on the module the parser left current
ModuleFoundCurrent(v, m) == ~HasRegistry(v) \/ m = current_module

\* system.get_module(module_name) and the "Module not found" return
ModuleFound(v, m) == ~HasRegistry(v) \/ m \in modules

\* entry of one invocation of validate, the first or a recursive one
Enter ==
  /\ pc = "enter"
  /\ depth' = depth + 1
  /\ checked' = <<>>
  /\ IF ModuleFound(variant, call.module)
     THEN /\ pc' = "exec"
          /\ UNCHANGED <<result, reason>>
     ELSE Return("False", "ModuleNotFound")
  /\ UNCHANGED <<variant, call, all_rules, idx, conflict, start, execs,
                 declared, prev, procs>>
  /\ UNCHANGED registry

\* an except branch that reports the error and falls through
AfterExecutionFallThrough(outcome) == "collect"

\* what follows the try block around func(*args)
AfterExecution(outcome) == IF outcome = "raise" THEN "return" ELSE "collect"

\* steps 1 and 2 of validate: func(*args) inside try/except, then the
\* rule list is built (import) or taken (others) and the loop begins
Execute ==
  /\ pc = "exec"
  /\ execs' = execs + 1
  /\ IF AfterExecution(RunFunc(variant, call.func, call.args)) = "return"
     THEN /\ Return("False", "ExecutionError")
          /\ UNCHANGED <<all_rules, idx>>
     ELSE /\ all_rules' = AllRules(variant, call.module)
          /\ idx' = 1
          /\ pc' = "loop"
          /\ UNCHANGED <<result, reason>>
  /\ UNCHANGED <<variant, call, conflict, start, depth, checked, declared,
                 prev, procs>>
  /\ UNCHANGED registry

\* a loop without the test of the active flag
SkippedNever(rule) == FALSE

\* a loop that passes over the soft rules as well
SkippedSoft(rule) == ~rule.active \/ rule.kind = SOFT

\* "if not rule.active: continue"
Skipped(rule) == ~rule.active

\* a loop that calls the predicate outside the try block
PredicateUnguarded(v) == FALSE

\* the predicate is called inside "try: ... except Exception: continue";
\* Rule.check of the kernel calls it outside any try block
PredicateGuarded(v) == v # "kernel"

\* an except branch that takes a raising predicate for a violated one
CheckOutcomeStrict(v, rule, args) ==
  IF EvalLogic(v, rule.logic, args) = "true" THEN "ok" ELSE "conflict"

\* evaluation of the predicate of an active rule: "ok", "conflict",
\* "skip" (the except branch) or "escape" (the exception leaves validate)
CheckOutcome(v, rule, args) ==
  LET e == EvalLogic(v, rule.logic, args) IN
  CASE e = "true"  -> "ok"
    [] e = "false" -> "conflict"
    [] OTHER       -> IF PredicateGuarded(v) THEN "skip" ELSE "escape"

\* a repair step that relaxes whatever rule is in conflict
DecisionRelaxAny(v, kind) == "RELAX_RULE"

\* a repair step that rejects on every conflict
DecisionRejectAny(v, kind) == "REJECT_TRANSFORMATION"

\* the branch on rule.kind; NeuralProposer.propose_fix in the kernel
Decision(v, kind) ==
  IF v = "kernel"
  THEN IF kind = SOFT THEN "RELAX_RULE" ELSE "REJECT_TRANSFORMATION"
  ELSE IF kind = HARD THEN "REJECT_TRANSFORMATION" ELSE "RELAX_RULE"

\* a repair step that reports the relaxation and leaves the flag set
DeactivateNothing(rs, ref) == rs

\* a repair step that disables the rule and re-enables its siblings
DeactivateAlone(rs, ref) ==
  [rs EXCEPT ![ref[1]] =
     [i \in 1..Len(@) |-> [@[i] EXCEPT !.active = (i # ref[2])]]]

\* a repair step that disables every rule of the registry with that name
DeactivateByName(rs, ref) ==
  [m \in DOMAIN rs |->
     [i \in 1..Len(rs[m]) |->
        IF rs[m][i].name = RuleAt(rs, ref).name
        THEN [rs[m][i] EXCEPT !.active = FALSE]
        ELSE rs[m][i]]]

\* a repair step that disables all the soft rules of the rule's module
DeactivateModule(rs, ref) ==
  [rs EXCEPT ![ref[1]] =
     [i \in 1..Len(@) |->
        IF @[i].kind = SOFT THEN [@[i] EXCEPT !.active = FALSE] ELSE @[i]]]

\* a repair step that inverts the flag it has read as set
DeactivateFlip(rs, ref) == [rs EXCEPT ![ref[1]][ref[2]].active = ~@]

\* "rule.active = False" on the Rule object behind ref
Deactivate(rs, ref) == [rs EXCEPT ![ref[1]][ref[2]].active = FALSE]

\* a repair step that goes on with the loop after disabling the rule
RevalidationResumes == "loop"

\* "return self.validate(...)": the repair step calls validate again
Revalidation == "enter"

\* a validate that restores on return the flags it was called with
RulesRolledBack(rs, started) == started

\* the flags a return statement leaves: the rules were changed in place
\* and nothing restores them
RulesAtReturn(rs, started) == rs

\* one iteration of the verification loop
Check ==
  /\ pc = "loop"
  /\ idx <= Len(all_rules)
  /\ LET ref  == all_rules[idx]
         rule == RuleAt(rules, ref)
         out  == CheckOutcome(variant, rule, call.args)
     IN IF Skipped(rule)
        THEN /\ idx' = idx + 1
             /\ UNCHANGED <<rules, pc, result, reason, conflict, checked>>
        ELSE /\ checked' = Append(checked, ref)
             /\ CASE out \in {"ok", "skip"} ->
                       /\ idx' = idx + 1
                       /\ UNCHANGED <<rules, pc, result, reason, conflict>>
                  [] out = "escape" ->
                       /\ Return("raised", "PredicateError")
                       /\ UNCHANGED <<rules, idx, conflict>>
                  [] OTHER ->
                       /\ conflict' = ref
                       /\ IF Decision(variant, rule.kind) = "RELAX_RULE"
                          THEN /\ rules' = Deactivate(rules, ref)
                               /\ pc' = Revalidation
                               /\ UNCHANGED <<idx, result, reason>>
                          ELSE /\ Return("False", "HardRuleViolation")
                               /\ rules' = RulesAtReturn(rules, start)
                               /\ UNCHANGED idx
  /\ UNCHANGED <<variant, modules, current_module, imports, declared, prev, procs,
                 call,
                 all_rules, start, depth, execs>>

\* the loop has run through: STATUS: ACCEPT
Accept ==
  /\ pc = "loop"
  /\ idx > Len(all_rules)
  /\ Return("True", "Accept")
  /\ rules' = RulesAtReturn(rules, start)
  /\ UNCHANGED <<variant, call, all_rules, idx, conflict, start, depth,
                 execs, checked, declared, prev, procs>>
  /\ UNCHANGED <<modules, current_module, imports>>

\* ------------------------------------------------------------------- Spec
Next ==
  \/ \E name \in AllNames : CreateModule(name)
  \/ \E name \in AllNames : AddImport(name)
  \/ \E name \in UNION {RuleNames(v) : v \in Variants}, kind \in RuleType :
       AddRule(name, kind)
  \/ \E m \in AllNames, f \in UNION {FuncsOf(v) : v \in Variants},
        a \in ArgsOf(variant) : Validate(m, f, a)
  \/ Enter
  \/ Execute
  \/ Check
  \/ Accept

Spec == Init /\ [][Next]_vars

\* the same, with callers that repeat a call as soon as it has returned
NextRepeat == Next \/ ValidateAgain

SpecRepeat == Init /\ [][NextRepeat]_vars

\* ------------------------------------------------------------- SpecGraph
\* validate on registries the parser can have built over three modules:
\* every import graph of at most MaxGraphImports entries, self-imports,
\* repeated imports, cycles and diamonds included
GraphRules ==
  [m \in AllNames |->
     CASE m = "CoreMath" -> <<NewRule("import", "nonzero", HARD, m)>>
       [] m = "Finance"  -> <<NewRule("import", "positive", SOFT, m),
                              NewRule("import", "nonzero", SOFT, m)>>
       [] m = "Audit"    -> <<NewRule("import", "nonzero", SOFT, m)>>
       [] OTHER          -> <<>>]

ImportLists == UNION {[1..n -> GraphNames] : n \in 0..MaxGraphImports}

InitGraph ==
  /\ variant = "import"
  /\ modules = GraphNames
  /\ current_module = "Audit"
  /\ rules = GraphRules
  /\ \E g \in [GraphNames -> ImportLists] :
       /\ SumLen(g, GraphNames) <= MaxGraphImports
       /\ imports = [m \in AllNames |-> IF m \in GraphNames THEN g[m] ELSE <<>>]
  /\ declared = imports
  /\ pc = "enter"
  /\ \E m \in GraphNames, a \in {<<100, 0>>, <<-1>>} :
       call = [module |-> m, func |-> "total", args |-> a]
  /\ all_rules = <<>>
  /\ idx = 0
  /\ result = "none"
  /\ reason = "none"
  /\ conflict = NoRule
  /\ start = rules
  /\ depth = 0
  /\ execs = 0
  /\ checked = <<>>
  /\ prev = "none"
  /\ procs = NoProcs

NextGraph == Enter \/ Execute \/ Check \/ Accept

SpecGraph == InitGraph /\ [][NextGraph]_vars

\* the call runs to completion once started: validate is synchronous
FairGraph == SpecGraph /\ WF_vars(NextGraph)

\* ------------------------------------------------------------- SpecOrder
\* validate on the import graphs over four modules, on which the order of
\* a depth-first collection differs from that of other traversals
OrderRules ==
  [m \in AllNames |->
     CASE m = "CoreMath" -> <<NewRule("import", "nonzero", HARD, m)>>
       [] m = "Finance"  -> <<NewRule("import", "positive", SOFT, m),
                              NewRule("import", "nonzero", SOFT, m)>>
       [] m = "Audit"    -> <<NewRule("import", "nonzero", SOFT, m)>>
       [] m = "Tax"      -> <<NewRule("import", "positive", HARD, m)>>
       [] OTHER          -> <<>>]

\* the import lines the parser has read: <<importing module, imported>>
OrderImportLines ==
  UNION {[1..n -> OrderNames \X OrderNames] : n \in 0..MaxGraphImports}

\* Module.add_import for each line in turn
RECURSIVE AddImports(_, _)
AddImports(imps, lines) ==
  IF lines = <<>> THEN imps
  ELSE AddImports([imps EXCEPT ![Head(lines)[1]] = Append(@, Head(lines)[2])],
                  Tail(lines))

InitOrder ==
  /\ variant = "import"
  /\ modules = OrderNames
  /\ current_module = "Tax"
  /\ rules = OrderRules
  /\ \E lines \in OrderImportLines :
       imports = AddImports([m \in AllNames |-> <<>>], lines)
  /\ declared = imports
  /\ pc = "enter"
  /\ \E m \in OrderNames, a \in {<<100, 0>>, <<100, 10>>} :
       call = [module |-> m, func |-> "total", args |-> a]
  /\ all_rules = <<>>
  /\ idx = 0
  /\ result = "none"
  /\ reason = "none"
  /\ conflict = NoRule
  /\ start = rules
  /\ depth = 0
  /\ execs = 0
  /\ checked = <<>>
  /\ prev = "none"
  /\ procs = NoProcs

SpecOrder == InitOrder /\ [][NextGraph]_vars

\* ------------------------------------------------------ SpecInterleaved
\* two callers run validate on one registry with no synchronisation: a
\* step of a caller is one entry of validate up to the collected list, one
\* test of an active flag, or one predicate evaluation with the flag write
\* or return that follows it
SingleCallUnchanged ==
  UNCHANGED <<variant, modules, current_module, imports, declared, pc, call,
              all_rules, idx, result, reason, conflict, start, depth, execs,
              checked, prev>>

\* entry of validate by caller p: module lookup, func(*args), collection
ProcEnter(p) ==
  LET me == procs[p] IN
  /\ me.pc = "enter"
  /\ IF ~ModuleFound(variant, me.call.module)
        \/ AfterExecution(RunFunc(variant, me.call.func, me.call.args))
             = "return"
     THEN procs' = [procs EXCEPT ![p].pc = "done", ![p].result = "False",
                                 ![p].depth = @ + 1]
     ELSE procs' = [procs EXCEPT
                      ![p].pc = "test", ![p].idx = 1, ![p].depth = @ + 1,
                      ![p].all_rules = AllRules(variant, me.call.module)]
  /\ UNCHANGED rules
  /\ SingleCallUnchanged

\* "for rule in all_rules: if not rule.active: continue" by caller p, and
\* the return of True after the last rule
ProcTest(p) ==
  LET me == procs[p] IN
  /\ me.pc = "test"
  /\ IF me.idx > Len(me.all_rules)
     THEN procs' = [procs EXCEPT ![p].pc = "done", ![p].result = "True"]
     ELSE IF Skipped(RuleAt(rules, me.all_rules[me.idx]))
     THEN procs' = [procs EXCEPT ![p].idx = @ + 1]
     ELSE procs' = [procs EXCEPT ![p].pc = "act"]
  /\ UNCHANGED rules
  /\ SingleCallUnchanged

\* the predicate call of caller p on the rule it found active, and what
\* follows: the next rule, the rejection, or the flag write and restart
ProcAct(p) ==
  LET me   == procs[p]
      ref  == me.all_rules[me.idx]
      rule == RuleAt(rules, ref)
      out  == CheckOutcome(variant, rule, me.call.args)
  IN
  /\ me.pc = "act"
  /\ CASE out \in {"ok", "skip"} ->
            /\ procs' = [procs EXCEPT ![p].pc = "test", ![p].idx = @ + 1]
            /\ UNCHANGED rules
       [] out = "escape" ->
            /\ procs' = [procs EXCEPT ![p].pc = "done", ![p].result = "raised"]
            /\ UNCHANGED rules
       [] OTHER ->
            IF Decision(variant, rule.kind) = "RELAX_RULE"
            THEN /\ rules' = Deactivate(rules, ref)
                 /\ procs' = [procs EXCEPT ![p].pc = Revalidation]
            ELSE /\ procs' = [procs EXCEPT ![p].pc = "done",
                                           ![p].result = "False"]
                 /\ UNCHANGED rules
  /\ SingleCallUnchanged

RaceImportLines ==
  UNION {[1..n -> GraphNames \X GraphNames] : n \in 0..MaxRaceImports}

InitInterleaved ==
  /\ variant = "import"
  /\ modules = GraphNames
  /\ current_module = "Audit"
  /\ rules = GraphRules
  /\ \E lines \in RaceImportLines :
       imports = AddImports([m \in AllNames |-> <<>>], lines)
  /\ declared = imports
  /\ pc = "idle"
  /\ call = NoCall
  /\ all_rules = <<>>
  /\ idx = 0
  /\ result = "none"
  /\ reason = "none"
  /\ conflict = NoRule
  /\ start = rules
  /\ depth = 0
  /\ execs = 0
  /\ checked = <<>>
  /\ prev = "none"
  /\ \E m1, m2 \in GraphNames, a2 \in {<<100, 0>>, <<-1>>} :
       procs = [p \in Procs |->
                  [NoProc EXCEPT
                     !.pc = "enter",
                     !.call = [module |-> IF p = 1 THEN m1 ELSE m2,
                               func |-> "total",
                               args |-> IF p = 1 THEN <<100, 0>> ELSE a2]]]

ProcStep(p) == ProcEnter(p) \/ ProcTest(p) \/ ProcAct(p)

NextInterleaved == \E p \in Procs : ProcStep(p)

SpecInterleaved == InitInterleaved /\ [][NextInterleaved]_vars

\* each caller's thread keeps running until its call has returned
FairInterleaved ==
  SpecInterleaved /\ \A p \in Procs : WF_vars(ProcStep(p))

\* ================================================================ claims
\* modules reachable from a set of modules through imports
RECURSIVE ImportClosure(_)
ImportClosure(S) ==
  LET T == S \cup UNION {{imports[n][i] : i \in 1..Len(imports[n])} : n \in S}
  IN IF T = S THEN S ELSE ImportClosure(T)

\* modules whose rules apply in module m
Reach(v, m) == IF v = "import" THEN ImportClosure({m}) ELSE {m}

\* the rules reachable from the target module of the call
CallRefs ==
  UNION {{<<n, i>> : i \in 1..Len(rules[n])} : n \in Reach(variant, call.module)}

Returned   == pc = "done"
Running    == pc \in {"enter", "exec", "loop"}
Executes   == RunFunc(variant, call.func, call.args) = "ok"
TargetFound == ModuleFound(variant, call.module)

\* what the predicate of a rule gives on the arguments of the call
OnArgs(ref) == EvalLogic(variant, RuleAt(rules, ref).logic, call.args)

\* the rule was active when the call was made and its predicate is false
ViolatedAtStart(ref) == RuleAt(start, ref).active /\ OnArgs(ref) = "false"

IsHard(ref) == RuleAt(rules, ref).kind = HARD
IsSoft(ref) == RuleAt(rules, ref).kind = SOFT

\* deactivated by the call that is running or has just returned
DeactivatedByCall(ref) ==
  RuleAt(start, ref).active /\ ~RuleAt(rules, ref).active

\* C1 - Hard-rule primacy: a call whose transformation returns and that
\* reaches an active hard rule with a false predicate returns Rejected by
\* the hard-rule return, whatever soft rules are violated around it.
C1_HardRulePrimacy ==
  (Returned /\ TargetFound /\ Executes
     /\ \E ref \in CallRefs : IsHard(ref) /\ ViolatedAtStart(ref))
  => /\ result = "False"
     /\ reason = "HardRuleViolation"
     /\ conflict \in CallRefs
     /\ IsHard(conflict)
     /\ ViolatedAtStart(conflict)

\* a hard rejection that came after a violated soft rule had been relaxed
C1_Witness ==
  /\ Returned
  /\ reason = "HardRuleViolation"
  /\ \E ref \in CallRefs : IsSoft(ref) /\ DeactivatedByCall(ref)

\* k of the termination bound: soft rules reachable when the call was made
SoftAtStart == Cardinality({ref \in CallRefs : IsSoft(ref)})

\* C2 - Termination bound: on every import graph, validate is entered at
\* most k+1 times in one call (so it restarts at most k times, within the
\* k+1 of the claim), and every call that was started returns.
C2_TerminationBound ==
  /\ []((Running \/ Returned) => depth <= SoftAtStart + 1)
  /\ (Running ~> Returned)

\* a call over an import cycle that restarted and used the whole bound
C2_Witness ==
  /\ Returned
  /\ SoftAtStart >= 1
  /\ depth = SoftAtStart + 1
  /\ \E n \in GraphNames :
       n # call.module /\ call.module \in Reach(variant, n)

\* positions of all_rules that hold a given rule
PositionsOf(ref) == {j \in 1..Len(all_rules) : all_rules[j] = ref}

\* C3 - Import transitivity and cycle safety: the collected list holds
\* every rule of every module reachable from the target through imports,
\* each exactly once, and nothing else; collection ends on every graph.
C3_ImportTransitivity ==
  (variant = "import" /\ pc = "loop")
  => /\ \A ref \in CallRefs : Cardinality(PositionsOf(ref)) = 1
     /\ \A j \in 1..Len(all_rules) : all_rules[j] \in CallRefs

\* a collection over a cycle through the target module that reaches a
\* module the target does not import itself
C3_Witness ==
  /\ variant = "import"
  /\ pc = "loop"
  /\ \E n \in GraphNames :
       /\ n # call.module
       /\ \A i \in 1..Len(imports[call.module]) : imports[call.module][i] # n
       /\ n \in Reach(variant, call.module)
       /\ call.module \in Reach(variant, n)
       /\ Len(rules[n]) > 0

\* the registry of Scenario 1: CoreMath declares the hard rule nonzero
\* and Finance imports CoreMath
Scenario1 ==
  /\ variant = "import"
  /\ rules["CoreMath"] = <<NewRule("import", "nonzero", HARD, "CoreMath")>>
  /\ \E i \in 1..Len(imports["Finance"]) : imports["Finance"][i] = "CoreMath"

\* C4 - Scenario 1: in Finance, divide(100, 0) is rejected by the hard
\* rule nonzero of CoreMath and divide(100, 10) is accepted.
C4_Scenario1 ==
  (Scenario1 /\ Returned /\ call.module = "Finance"
     /\ call.func = "safe_divide")
  => /\ call.args = <<100, 0>> =>
          /\ result = "False"
          /\ reason = "HardRuleViolation"
          /\ conflict = <<"CoreMath", 1>>
     /\ call.args = <<100, 10>> => result = "True"

\* a step of a validate call, as opposed to a step that builds the registry
ValidateStep == pc' # "idle"

\* C5 - Soft-rule monotonicity: no step of any validate call turns an
\* active flag from false to true (or removes a rule).
C5_SoftRuleMonotonicity ==
  [][ValidateStep =>
       \A m \in AllNames :
         /\ Len(rules'[m]) = Len(rules[m])
         /\ \A i \in 1..Len(rules[m]) :
              ~rules[m][i].active => ~rules'[m][i].active]_vars

\* a call has returned that met a rule an earlier call had deactivated and
\* that its own arguments violate too
C5_Witness ==
  /\ Returned
  /\ \E ref \in CallRefs :
       /\ ~RuleAt(start, ref).active
       /\ ~RuleAt(rules, ref).active
       /\ OnArgs(ref) = "false"

\* C6 - Cross-call coupling: the loop passes over a rule it finds
\* inactive, in whichever module the call runs, without evaluating its
\* predicate; so no call evaluates a rule that was inactive when the call
\* was made.
C6_CrossCallCoupling ==
  /\ [][(pc = "loop" /\ idx <= Len(all_rules)
          /\ ~RuleAt(rules, all_rules[idx]).active)
         => /\ pc' = "loop"
            /\ idx' = idx + 1
            /\ checked' = checked
            /\ rules' = rules
            /\ result' = "none"]_vars
  /\ []((Running \/ Returned)
        => \A k \in 1..Len(checked) : RuleAt(start, checked[k]).active)

\* a call in one module has passed over a rule of an imported module that
\* an earlier call deactivated and that its arguments violate
C6_Witness ==
  /\ Returned
  /\ \E j \in 1..Len(all_rules) :
       /\ j < idx
       /\ all_rules[j][1] # call.module
       /\ ~RuleAt(start, all_rules[j]).active
       /\ OnArgs(all_rules[j]) = "false"

\* the soft rules the call found active and violated
SoftViolatedAtStart ==
  {ref \in CallRefs : IsSoft(ref) /\ ViolatedAtStart(ref)}

\* no predicate raises on the arguments of the call
NoneRaises == \A ref \in CallRefs : OnArgs(ref) # "raise"

C8_ModuleNotFound ==
  [][(pc = "enter" /\ call.module \notin modules /\ HasRegistry(variant))
       => /\ pc' = "done"
          /\ result' = "False"
          /\ reason' = "ModuleNotFound"
          /\ execs' = 0
          /\ checked' = <<>>
          /\ UNCHANGED registry]_vars

\* a call on a missing module has returned while other modules hold rules
C8_Witness ==
  /\ Returned
  /\ reason = "ModuleNotFound"
  /\ call.module \notin modules
  /\ TotalRules > 0

\* C9 - ExecutionError: an attempt whose transformation raises returns
\* False at once; it has evaluated no predicate and changes no flag.
C9_ExecutionError ==
  [][(pc = "exec" /\ ~Executes)
       => /\ pc' = "done"
          /\ result' = "False"
          /\ reason' = "ExecutionError"
          /\ checked = <<>>
          /\ checked' = <<>>
          /\ UNCHANGED registry]_vars

\* a call has returned on an execution error although it reached an active
\* rule that its arguments violate
C9_Witness ==
  /\ Returned
  /\ reason = "ExecutionError"
  /\ \E ref \in CallRefs : RuleAt(rules, ref).active /\ OnArgs(ref) = "false"

C11_NoUncaughtFaults ==
  Returned => /\ result \in {"True", "False"}
              /\ reason # "PredicateError"

\* depth-first preorder of the modules, by an explicit stack of the modules
\* still to visit: the imports of a visited module go in front of the rest
RECURSIVE PreorderFrom(_, _, _)
PreorderFrom(stack, seen, out) ==
  IF stack = <<>> THEN out
  ELSE IF Head(stack) \in seen THEN PreorderFrom(Tail(stack), seen, out)
  ELSE PreorderFrom(imports[Head(stack)] \o Tail(stack),
                    seen \cup {Head(stack)}, Append(out, Head(stack)))

\* the rules of a sequence of modules, each in declaration order
RECURSIVE RulesOfModules(_)
RulesOfModules(ms) ==
  IF ms = <<>> THEN <<>> ELSE RuleRefs(Head(ms)) \o RulesOfModules(Tail(ms))

ActiveNow(ref) == RuleAt(rules, ref).active

\* C12 - Collector ordering: the collected sequence is the rules of the
\* modules in depth-first preorder from the target, each module once, and
\* the loop evaluates the active ones among them in exactly that order.
C12_CollectorOrdering ==
  (variant = "import" /\ pc = "loop")
  => /\ all_rules = RulesOfModules(PreorderFrom(<<call.module>>, {}, <<>>))
     /\ checked = SelectSeq(SubSeq(all_rules, 1, idx - 1), ActiveNow)

\* the loop has walked a list in which the rules of a module reached only
\* through the first import come before those of the second import
C12_Witness ==
  /\ variant = "import"
  /\ pc = "loop"
  /\ idx > Len(all_rules)
  /\ \E a, b, c \in OrderNames :
       /\ Cardinality({call.module, a, b, c}) = 4
       /\ imports[call.module] = <<a, b>>
       /\ imports[a] = <<c>>
       /\ \E i, j \in 1..Len(checked) :
            i < j /\ checked[i][1] = c /\ checked[j][1] = b

\* the rules of module x are all in the collected list
Collected(x) ==
  \A k \in 1..Len(rules[x]) : \E j \in 1..Len(all_rules) : all_rules[j] = <<x, k>>

\* C13 - Forward imports (as claimed): whenever validate runs on M, every
\* module X that an import line of M names and that exists by then has its
\* rules collected, whether X was created before or after that line.
C13_ForwardImports ==
  (variant = "import" /\ pc = "loop")
  => \A i \in 1..Len(declared[call.module]) :
       declared[call.module][i] \in modules
       => Collected(declared[call.module][i])

\* C13 (amended) - an import line of M naming X is recorded exactly when
\* X exists as the line is read, and nothing but an import line changes an
\* import list; the rules of every recorded import are collected when
\* validate runs on M.
C13_ImportsDeclaredBeforehand ==
  /\ [][variant = "import" =>
         \A m \in AllNames :
           IF declared'[m] # declared[m]
           THEN \E x \in AllNames :
                  /\ declared'[m] = Append(declared[m], x)
                  /\ imports'[m] = IF x \in modules
                                   THEN Append(imports[m], x)
                                   ELSE imports[m]
           ELSE imports'[m] = imports[m]]_vars
  /\ []((variant = "import" /\ pc = "loop")
        => \A i \in 1..Len(imports[call.module]) :
             Collected(imports[call.module][i]))

\* validate runs on a module one of whose import lines was read before
\* the module it names was created; that module now exists and holds a
\* rule, which is not collected
C13_Witness ==
  /\ variant = "import"
  /\ pc = "loop"
  /\ \E i \in 1..Len(declared[call.module]) :
       LET x == declared[call.module][i] IN
       /\ x \in modules
       /\ Len(rules[x]) > 0
       /\ x # call.module
       /\ ~Collected(x)

\* C14 - Idempotent module creation: in the variants with a registry no
\* step, and so no second creation under an existing name, removes a module
\* or takes a rule or an import away from it: each rule list and import
\* list keeps what it held, in place.
C14_IdempotentModuleCreation ==
  [][HasRegistry(variant) =>
       \A m \in modules :
         /\ m \in modules'
         /\ Len(rules'[m]) >= Len(rules[m])
         /\ \A i \in 1..Len(rules[m]) :
              /\ rules'[m][i].name = rules[m][i].name
              /\ rules'[m][i].kind = rules[m][i].kind
         /\ Len(imports'[m]) >= Len(imports[m])
         /\ \A i \in 1..Len(imports[m]) : imports'[m][i] = imports[m][i]]_vars

\* every rule of the registry
AllRefs == UNION {{<<n, i>> : i \in 1..Len(rules[n])} : n \in AllNames}

\* the rules the call has deactivated so far
DeactivatedSoFar == {ref \in AllRefs : DeactivatedByCall(ref)}

\* C15 - Re-execution on restart: in a call on an existing module every
\* attempt invokes the transformation once and then walks the list
\* collected from the registry as it is now; so the transformation has
\* been invoked once per entry of validate, which is once more than the
\* number of rules the call has deactivated.
C15_ReExecutionOnRestart ==
  ((Running \/ Returned) /\ TargetFound /\ depth >= 1)
  => /\ pc = "exec" =>
          /\ execs = depth - 1
          /\ Cardinality(DeactivatedSoFar) = depth - 1
     /\ pc = "loop" =>
          /\ execs = depth
          /\ Cardinality(DeactivatedSoFar) = depth - 1
          /\ all_rules = AllRules(variant, call.module)
     /\ pc = "enter" =>
          /\ execs = depth
          /\ Cardinality(DeactivatedSoFar) = depth
     /\ pc = "done" =>
          /\ execs = depth
          /\ execs = Cardinality(DeactivatedSoFar) + 1

\* a call has returned after two restarts and three invocations of the
\* transformation
C15_Witness ==
  /\ Returned
  /\ execs = 3
  /\ depth = 3
  /\ Cardinality(DeactivatedSoFar) = 2

\* position of the first rule of list, from j on, that is active in rs and
\* whose predicate does not return true on args (in the kernel) or returns
\* false (elsewhere); 0 when there is none
RECURSIVE FirstStop(_, _, _, _, _)
FirstStop(v, rs, list, args, j) ==
  IF j > Len(list) THEN 0
  ELSE LET r == RuleAt(rs, list[j])
           e == EvalLogic(v, r.logic, args)
       IN IF r.active /\ (e = "false" \/ (e = "raise" /\ v = "kernel"))
          THEN j
          ELSE FirstStop(v, rs, list, args, j + 1)

\* verdict and final rules as a function of the modules, imports, rules and
\* flags at the start of the call and of its parameters alone
RECURSIVE Outcome(_, _, _, _, _)
Outcome(v, rs, m, f, args) ==
  IF HasRegistry(v) /\ m \notin modules THEN [result |-> "False", rules |-> rs]
  ELSE IF RunFunc(v, f, args) = "raise" THEN [result |-> "False", rules |-> rs]
  ELSE LET list == AllRules(v, m)
           j    == FirstStop(v, rs, list, args, 1)
       IN IF j = 0 THEN [result |-> "True", rules |-> rs]
          ELSE IF EvalLogic(v, RuleAt(rs, list[j]).logic, args) = "raise"
          THEN [result |-> "raised", rules |-> rs]
          ELSE IF RuleAt(rs, list[j]).kind = HARD
          THEN [result |-> "False", rules |-> rs]
          ELSE Outcome(v, [rs EXCEPT ![list[j][1]][list[j][2]].active = FALSE],
                       m, f, args)

\* C16 - Determinism: what a call returns and the flags it leaves are a
\* function of the modules, imports, rules and flags it started from and
\* of its module name, transformation and arguments; so two runs from
\* equal registries with equal parameters end alike, wherever the parser
\* stood and whatever calls ran before.
C16_Determinism ==
  Returned
  => /\ result = Outcome(variant, start, call.module, call.func, call.args).result
     /\ rules = Outcome(variant, start, call.module, call.func, call.args).rules

\* a call has returned that deactivated a rule, in a module other than the
\* one the parser left current, after an earlier call had deactivated
\* another rule
C16_Witness ==
  /\ Returned
  /\ HasRegistry(variant)
  /\ call.module \in modules
  /\ current_module # call.module
  /\ \E ref \in AllRefs : DeactivatedByCall(ref)
  /\ \E ref \in AllRefs : ~RuleAt(start, ref).active

\* C17 - Frame of validate: a step of a validate call leaves the modules,
\* the parser's current module, every import list and every rule list as
\* they are, but for the active flag of rules that are soft, reachable
\* from the target module and active, which it may turn to false.
C17_FrameOfValidate ==
  [][ValidateStep =>
       /\ modules' = modules
       /\ current_module' = current_module
       /\ imports' = imports
       /\ \A m \in AllNames :
            /\ Len(rules'[m]) = Len(rules[m])
            /\ \A i \in 1..Len(rules[m]) :
                 /\ rules'[m][i].name = rules[m][i].name
                 /\ rules'[m][i].kind = rules[m][i].kind
                 /\ rules'[m][i].logic = rules[m][i].logic
                 /\ rules'[m][i].source_module = rules[m][i].source_module
                 /\ rules'[m][i].active # rules[m][i].active
                    => /\ rules[m][i].kind = SOFT
                       /\ rules[m][i].active
                       /\ <<m, i>> \in CallRefs]_vars

\* a call has returned that deactivated a rule while a module it does not
\* reach holds an active soft rule that the arguments violate
C17_Witness ==
  /\ Returned
  /\ \E ref \in CallRefs : DeactivatedByCall(ref)
  /\ \E ref \in AllRefs \ CallRefs :
       /\ IsSoft(ref)
       /\ RuleAt(rules, ref).active
       /\ OnArgs(ref) = "false"

\* the rule at position k of the list is active, soft and violated
SoftConflictAt(k) ==
  /\ RuleAt(rules, all_rules[k]).active
  /\ IsSoft(all_rules[k])
  /\ OnArgs(all_rules[k]) = "false"

\* C18 - One deactivation per restart: validate is entered again only from
\* the loop, by a step that turns off exactly the rule under the loop,
\* which is the first rule of the collected list that is active, soft and
\* violated by the arguments; no other step of an attempt changes a flag.
C18_OneDeactivationPerRestart ==
  [][/\ (pc \in {"enter", "exec", "loop"} /\ pc' = "enter")
        => /\ pc = "loop"
           /\ idx <= Len(all_rules)
           /\ SoftConflictAt(idx)
           /\ \A k \in 1..(idx - 1) : ~SoftConflictAt(k)
           /\ rules' = [rules EXCEPT
                          ![all_rules[idx][1]][all_rules[idx][2]].active = FALSE]
     /\ (pc \in {"enter", "exec", "loop"} /\ pc' # "enter")
        => rules' = rules]_vars

\* an attempt has ended in a restart with one rule turned off while a later
\* rule of the list, soft and violated too, is still active
C18_Witness ==
  /\ pc = "enter"
  /\ depth = 1
  /\ DeactivatedSoFar = {conflict}
  /\ \E k \in 1..Len(all_rules) : k > idx /\ SoftConflictAt(k)

\* C19 - Module-local isolation in the modular variant: a call in module M
\* collects and evaluates rules of M only, and every rule of every other
\* module, a rule of the same name included, is as it was when the call
\* was made: same kind, same flag.
C19_ModuleLocalIsolation ==
  (variant = "modular" /\ (Running \/ Returned))
  => /\ \A j \in 1..Len(all_rules) : all_rules[j][1] = call.module
     /\ \A k \in 1..Len(checked) : checked[k][1] = call.module
     /\ \A ref \in AllRefs :
          ref[1] # call.module => RuleAt(rules, ref) = RuleAt(start, ref)

\* TEST 2: a call in LinearAlgebra has relaxed its soft commutativity on
\* arguments that also violate the hard commutativity of Arithmetic,
\* which is still active
C19_Witness ==
  /\ variant = "modular"
  /\ Returned
  /\ result = "True"
  /\ call.module = "LinearAlgebra"
  /\ \E i \in 1..Len(rules["LinearAlgebra"]) :
       /\ rules["LinearAlgebra"][i].name = "commutativity"
       /\ DeactivatedByCall(<<"LinearAlgebra", i>>)
  /\ \E i \in 1..Len(rules["Arithmetic"]) :
       /\ rules["Arithmetic"][i].name = "commutativity"
       /\ rules["Arithmetic"][i].kind = HARD
       /\ rules["Arithmetic"][i].active
       /\ OnArgs(<<"Arithmetic", i>>) = "false"

\* the rule at position k of the list was active when the call was made
\* and the arguments violate it
ViolatedAt(k) == ViolatedAtStart(all_rules[k])

\* C20 - Side effects of a rejected validation: when a call has returned
\* by a hard-rule rejection, the rejecting rule is the first hard rule of
\* the collected list that was active and violated, the rules the call
\* has deactivated and left deactivated are exactly the soft rules before
\* it that were active and violated, and every rule after it has the flag
\* it had when the call was made.
C20_RejectedSideEffects ==
  (Returned /\ reason = "HardRuleViolation")
  => /\ idx \in 1..Len(all_rules)
     /\ all_rules[idx] = conflict
     /\ IsHard(conflict)
     /\ ViolatedAt(idx)
     /\ \A k \in 1..(idx - 1) : ~(IsHard(all_rules[k]) /\ ViolatedAt(k))
     /\ DeactivatedSoFar
          = {all_rules[k] : k \in {n \in 1..(idx - 1) :
                                     IsSoft(all_rules[n]) /\ ViolatedAt(n)}}
     /\ \A k \in (idx + 1)..Len(all_rules) :
          RuleAt(rules, all_rules[k]).active = RuleAt(start, all_rules[k]).active

\* a rejected call has deactivated a violated soft rule that came before
\* the hard rule and left active a violated soft rule that comes after it
C20_Witness ==
  /\ Returned
  /\ reason = "HardRuleViolation"
  /\ \E k \in 1..Len(all_rules) :
       k < idx /\ DeactivatedByCall(all_rules[k])
  /\ \E k \in 1..Len(all_rules) :
       /\ k > idx
       /\ IsSoft(all_rules[k])
       /\ RuleAt(rules, all_rules[k]).active
       /\ OnArgs(all_rules[k]) = "false"

\* an active hard rule reachable from the target has a predicate that
\* returns false on the arguments
HardViolation ==
  \E ref \in CallRefs :
    IsHard(ref) /\ RuleAt(rules, ref).active /\ OnArgs(ref) = "false"

C22_AcceptedPostCondition ==
  (Returned /\ result = "True")
  => \A ref \in CallRefs :
       RuleAt(rules, ref).active => OnArgs(ref) \in {"true", "raise"}

\* an accepted call that relaxed a soft rule and met, in an imported
\* module, a hard rule that does not apply to the arguments and stays
\* active
C22_Witness ==
  /\ Returned
  /\ result = "True"
  /\ \E ref \in CallRefs : DeactivatedByCall(ref)
  /\ \E ref \in CallRefs :
       /\ ref[1] # call.module
       /\ IsHard(ref)
       /\ RuleAt(rules, ref).active
       /\ OnArgs(ref) = "raise"

\* C23 - Idempotence of validation: a call made again as soon as it has
\* returned changes no flag, returns what the first call returned, and,
\* when that was Accepted, is done after one entry of validate and one
\* invocation of the transformation.
C23_IdempotenceOfValidation ==
  ((Running \/ Returned) /\ prev # "none")
  => /\ rules = start
     /\ Returned => /\ result = prev
                    /\ prev = "True" => (depth = 1 /\ execs = 1)

\* the repeated call has returned Accepted in one attempt, passing over a
\* violated soft rule that is inactive
C23_Witness ==
  /\ Returned
  /\ prev = "True"
  /\ result = "True"
  /\ \E ref \in CallRefs :
       IsSoft(ref) /\ ~RuleAt(rules, ref).active /\ OnArgs(ref) = "false"

\* both concurrent calls have returned
AllReturned == \A p \in Procs : procs[p].pc = "done"

\* what the call of caller p gives when it runs alone from registry rs
Alone(p, rs) ==
  Outcome(variant, rs, procs[p].call.module, procs[p].call.func,
          procs[p].call.args)

\* the flags after the call of p and then the call of q, one after the
\* other, from the registry the two callers started on
Serial(p, q) == Alone(q, Alone(p, start).rules).rules

InactiveIn(rs) == {ref \in AllRefs : ~RuleAt(rs, ref).active}

\* C24 - Interleaved validations: two validate calls that interleave
\* step by step on one registry both return; each returns the verdict it
\* returns when it runs alone from the initial registry; no step sets a
\* flag that was cleared; and when both have returned the inactive rules
\* are those that the two calls leave when run one after the other, in
\* either order.
C24_InterleavedValidations ==
  /\ <>AllReturned
  /\ [](\A p \in Procs :
          procs[p].pc = "done" => procs[p].result = Alone(p, start).result)
  /\ [][\A m \in AllNames : \A i \in 1..Len(rules[m]) :
          ~rules[m][i].active => ~rules'[m][i].active]_vars
  /\ [](AllReturned => /\ InactiveIn(rules) = InactiveIn(Serial(1, 2))
                       /\ InactiveIn(rules) = InactiveIn(Serial(2, 1)))

\* both calls have returned after a race: together they restarted more
\* often than there are deactivated rules, so both wrote the flag of one
\* rule that each had read as active
C24_Witness ==
  /\ AllReturned
  /\ \A p \in Procs : procs[p].depth >= 2
  /\ (procs[1].depth - 1) + (procs[2].depth - 1)
       > Cardinality(InactiveIn(rules) \ InactiveIn(start))

====
